---------------------------- MODULE Spec2Model ----------------------------
(***************************************************************************)
(* Contact book of contacts_bot.py: validated fields (Name, Phone,         *)
(* Birthday), Record, AddressBook, the command handlers wrapped by         *)
(* input_error, and the command loop of main().                            *)
(*                                                                         *)
(* A Python str is modelled as a sequence of one-character strings, so     *)
(* that validation, splitting, joining, date parsing and date formatting   *)
(* are computed character by character.  A datetime.date is a record       *)
(* [year, month, day].  Optional[X] is a sequence of length 0 (None) or 1. *)
(***************************************************************************)
EXTENDS Integers, Sequences, FiniteSets

VARIABLES
    data,       \* AddressBook.data: name -> Record            (line 86-88)
    keys,       \* insertion order of the keys of AddressBook.data
    today,      \* the value of datetime.now().date()          (line 98)
    padYear,    \* whether the C library's strftime pads %Y to 4 digits
    pc,         \* main(): "input" at line 252, "printed" after the print of a pass
    running,    \* main(): the while True loop has not reached break
    escaped,    \* an exception left a handler and unwound main()
    command,    \* main(): command of the last line read       (line 253)
    args,       \* main(): args of the last line read          (line 253)
    out,        \* the string main() printed for the last line
    upcoming    \* handle_birthdays: value of `upcoming`       (line 194)

vars == <<data, keys, today, padYear, pc, running, escaped, command, args, out, upcoming>>

-----------------------------------------------------------------------------
(* Characters and str methods                                              *)

UpperLetters ==
    <<"A","B","C","D","E","F","G","H","I","J","K","L","M",
      "N","O","P","Q","R","S","T","U","V","W","X","Y","Z">>

LowerLetters ==
    <<"a","b","c","d","e","f","g","h","i","j","k","l","m",
      "n","o","p","q","r","s","t","u","v","w","x","y","z">>

DigitChars ==
    <<"0","1","2","3","4","5","6","7","8","9">>

WhitespaceChars ==
    {" ", "\t", "\n"}

Range(s) ==
    {s[i] : i \in DOMAIN s}

Letters ==
    Range(UpperLetters) \cup Range(LowerLetters)

Digits ==
    Range(DigitChars)

\* str.isalpha(): non-empty and every character is a letter
isalpha(value) ==
    /\ Len(value) > 0
    /\ \A i \in DOMAIN value : value[i] \in Letters

\* str.isdigit(): non-empty and every character is a digit
isdigit(value) ==
    /\ Len(value) > 0
    /\ \A i \in DOMAIN value : value[i] \in Digits

\* the lower-case letter of each upper-case letter
LowerOf ==
    [c \in Range(UpperLetters) |->
        LowerLetters[CHOOSE i \in DOMAIN UpperLetters : UpperLetters[i] = c]]

\* str.lower() on one character
LowerChar(c) ==
    IF c \in DOMAIN LowerOf THEN LowerOf[c] ELSE c

lower(s) ==
    [i \in DOMAIN s |-> LowerChar(s[i])]

\* str.strip(): drop leading and trailing whitespace
RECURSIVE lstrip(_)
lstrip(s) ==
    IF s # <<>> /\ Head(s) \in WhitespaceChars THEN lstrip(Tail(s)) ELSE s

RECURSIVE rstrip(_)
rstrip(s) ==
    IF s # <<>> /\ s[Len(s)] \in WhitespaceChars
    THEN rstrip(SubSeq(s, 1, Len(s) - 1)) ELSE s

strip(s) ==
    rstrip(lstrip(s))

\* str.split(): split on runs of whitespace, no empty tokens.
\* cur is the token being read, acc the tokens already closed.
RECURSIVE SplitWs(_, _, _)
SplitWs(s, cur, acc) ==
    IF s = <<>>
    THEN IF cur = <<>> THEN acc ELSE Append(acc, cur)
    ELSE IF Head(s) \in WhitespaceChars
         THEN SplitWs(Tail(s), <<>>, IF cur = <<>> THEN acc ELSE Append(acc, cur))
         ELSE SplitWs(Tail(s), Append(cur, Head(s)), acc)

split(s) ==
    SplitWs(s, <<>>, <<>>)

\* split on one separator character, empty parts kept (the literal "." of
\* the strptime format separates the three numeric fields)
RECURSIVE SplitOn(_, _, _, _)
SplitOn(s, sep, cur, acc) ==
    IF s = <<>>
    THEN Append(acc, cur)
    ELSE IF Head(s) = sep
         THEN SplitOn(Tail(s), sep, <<>>, Append(acc, cur))
         ELSE SplitOn(Tail(s), sep, Append(cur, Head(s)), acc)

\* sep.join(parts)
RECURSIVE join(_, _)
join(sep, parts) ==
    IF parts = <<>> THEN <<>>
    ELSE IF Len(parts) = 1 THEN parts[1]
    ELSE parts[1] \o sep \o join(sep, Tail(parts))

\* int(s) for a string of decimal digits
ValueOf ==
    [c \in Digits |-> (CHOOSE i \in DOMAIN DigitChars : DigitChars[i] = c) - 1]

DigitValue(c) ==
    ValueOf[c]

RECURSIVE ToInt(_)
ToInt(s) ==
    IF s = <<>> THEN 0
    ELSE 10 * ToInt(SubSeq(s, 1, Len(s) - 1)) + DigitValue(s[Len(s)])

\* decimal digits of n, without padding
RECURSIVE Decimal(_)
Decimal(n) ==
    IF n < 10 THEN <<DigitChars[n + 1]>>
    ELSE Append(Decimal(n \div 10), DigitChars[(n % 10) + 1])

\* decimal digits of n, zero-padded on the left to width w
RECURSIVE ZeroPad(_, _)
ZeroPad(s, w) ==
    IF Len(s) >= w THEN s ELSE ZeroPad(<<"0">> \o s, w)

-----------------------------------------------------------------------------
(* String literals of the program                                          *)

MsgNameLetters ==
    <<"N","a","m","e"," ","m","u","s","t"," ","c","o","n","t","a","i","n"," ","o","n","l","y"," ","l","e","t","t","e","r","s">>
MsgPhoneDigits ==
    <<"P","h","o","n","e"," ","n","u","m","b","e","r"," ","m","u","s","t"," ","b","e"," ","1","0"," ","d","i","g","i","t","s">>
MsgDateFormat ==
    <<"I","n","v","a","l","i","d"," ","d","a","t","e"," ","f","o","r","m","a","t","."," ","U","s","e"," ","D","D",".","M","M",".","Y","Y","Y","Y">>
MsgPhoneNotFound ==
    <<"P","h","o","n","e"," ","n","u","m","b","e","r"," ","n","o","t"," ","f","o","u","n","d">>
MsgContactAdded ==
    <<"C","o","n","t","a","c","t"," ","a","d","d","e","d",".">>
MsgContactUpdated ==
    <<"C","o","n","t","a","c","t"," ","u","p","d","a","t","e","d",".">>
MsgPhoneUpdated ==
    <<"P","h","o","n","e"," ","n","u","m","b","e","r"," ","u","p","d","a","t","e","d",".">>
MsgContactNotFound ==
    <<"C","o","n","t","a","c","t"," ","n","o","t"," ","f","o","u","n","d",".">>
MsgNoContacts ==
    <<"N","o"," ","c","o","n","t","a","c","t","s"," ","a","v","a","i","l","a","b","l","e",".">>
MsgBirthdayNotSet ==
    <<"B","i","r","t","h","d","a","y"," ","n","o","t"," ","s","e","t">>
MsgBirthdayAdded ==
    <<"B","i","r","t","h","d","a","y"," ","a","d","d","e","d">>
MsgUsageAddBirthday ==
    <<"P","l","e","a","s","e"," ","p","r","o","v","i","d","e"," ","c","o","n","t","a","c","t"," ","n","a","m","e"," ","a","n","d"," ","b","i","r","t","h","d","a","y"," ","d","a","t","e",".">>
MsgUsageName ==
    <<"P","l","e","a","s","e"," ","p","r","o","v","i","d","e"," ","c","o","n","t","a","c","t"," ","n","a","m","e",".">>
MsgUsageAdd ==
    <<"P","l","e","a","s","e"," ","p","r","o","v","i","d","e"," ","c","o","n","t","a","c","t"," ","n","a","m","e"," ","a","n","d"," ","p","h","o","n","e"," ","n","u","m","b","e","r",".">>
MsgUsageChange ==
    <<"P","l","e","a","s","e"," ","p","r","o","v","i","d","e"," ","c","o","n","t","a","c","t"," ","n","a","m","e",","," ","o","l","d"," ","p","h","o","n","e"," ","n","u","m","b","e","r"," ","a","n","d"," ","n","e","w"," ","p","h","o","n","e"," ","n","u","m","b","e","r",".">>
MsgNoBirthdays ==
    <<"T","h","e","r","e"," ","a","r","e"," ","n","o"," ","b","i","r","t","h","d","a","y","s"," ","i","n"," ","t","h","e"," ","n","e","x","t"," ","7"," ","d","a","y","s",".">>
MsgDayOutOfRange ==
    <<"d","a","y"," ","i","s"," ","o","u","t"," ","o","f"," ","r","a","n","g","e"," ","f","o","r"," ","m","o","n","t","h">>
MsgEnterCommand ==
    <<"P","l","e","a","s","e"," ","e","n","t","e","r"," ","a"," ","c","o","m","m","a","n","d">>
MsgGoodBye ==
    <<"G","o","o","d"," ","b","y","e","!">>
MsgHello ==
    <<"H","o","w"," ","c","a","n"," ","I"," ","h","e","l","p"," ","y","o","u","?">>
MsgInvalidCommand ==
    <<"I","n","v","a","l","i","d"," ","c","o","m","m","a","n","d",".">>
CmdClose ==
    <<"c","l","o","s","e">>
CmdExit ==
    <<"e","x","i","t">>
CmdHello ==
    <<"h","e","l","l","o">>
CmdAdd ==
    <<"a","d","d">>
CmdChange ==
    <<"c","h","a","n","g","e">>
CmdPhone ==
    <<"p","h","o","n","e">>
CmdAll ==
    <<"a","l","l">>
CmdAddBirthday ==
    <<"a","d","d","-","b","i","r","t","h","d","a","y">>
CmdShowBirthday ==
    <<"s","h","o","w","-","b","i","r","t","h","d","a","y">>
CmdBirthdays ==
    <<"b","i","r","t","h","d","a","y","s">>
TxtContactName ==
    <<"C","o","n","t","a","c","t"," ","n","a","m","e",":"," ">>
TxtPhones ==
    <<","," ","p","h","o","n","e","s",":"," ">>
TxtBirthday ==
    <<","," ","b","i","r","t","h","d","a","y",":"," ">>
TxtBirthdayOn ==
    <<":"," ","b","i","r","t","h","d","a","y"," ","o","n"," ">>
TxtCelebrateOn ==
    <<","," ","c","e","l","e","b","r","a","t","e"," ","o","n"," ">>
SepPhones ==
    <<";"," ">>
SepLines ==
    <<"\n">>

-----------------------------------------------------------------------------
(* datetime.date                                                           *)





IsLeap(year) ==
    year % 4 = 0 /\ (year % 100 # 0 \/ year % 400 = 0)

DaysInMonth(year, month) ==
    IF month = 2 THEN (IF IsLeap(year) THEN 29 ELSE 28)
    ELSE IF month \in {4, 6, 9, 11} THEN 30 ELSE 31

\* date(year, month, day) raises ValueError unless this holds
ValidDate(year, month, day) ==
    /\ year \in 1..9999
    /\ month \in 1..12
    /\ day \in 1..DaysInMonth(year, month)

Date(year, month, day) ==
    [year |-> year, month |-> month, day |-> day]

DaysBeforeYear(year) ==
    (year - 1) * 365 + ((year - 1) \div 4) - ((year - 1) \div 100) + ((year - 1) \div 400)

RECURSIVE DaysBeforeMonth(_, _)
DaysBeforeMonth(year, month) ==
    IF month = 1 THEN 0
    ELSE DaysBeforeMonth(year, month - 1) + DaysInMonth(year, month - 1)

\* date.toordinal(): 1 for 0001-01-01
toordinal(d) ==
    DaysBeforeYear(d.year) + DaysBeforeMonth(d.year, d.month) + d.day

\* date.weekday(): Monday is 0, Saturday 5, Sunday 6
weekday(d) ==
    (toordinal(d) + 6) % 7

\* d1 < d2 on dates
DateLess(d1, d2) ==
    \/ d1.year < d2.year
    \/ d1.year = d2.year /\ d1.month < d2.month
    \/ d1.year = d2.year /\ d1.month = d2.month /\ d1.day < d2.day

\* (d1 - d2).days
DaysBetween(d1, d2) ==
    toordinal(d1) - toordinal(d2)

Tomorrow(d) ==
    IF d.day < DaysInMonth(d.year, d.month) THEN Date(d.year, d.month, d.day + 1)
    ELSE IF d.month < 12 THEN Date(d.year, d.month + 1, 1)
    ELSE Date(d.year + 1, 1, 1)

\* d + timedelta(days=n), n >= 0
RECURSIVE PlusDays(_, _)
PlusDays(d, n) ==
    IF n = 0 THEN d ELSE PlusDays(Tomorrow(d), n - 1)

\* A call either returns a value or raises: exc is "" on return and the
\* exception class otherwise, val the returned value or the exception's
\* argument.
Return(v) ==
    [exc |-> "", val |-> v]

Raise(class, msg) ==
    [exc |-> class, val |-> msg]

\* date.replace(year=...): ValueError when the day does not exist that year
replace_year(d, year) ==
    IF ValidDate(year, d.month, d.day)
    THEN Return(Date(year, d.month, d.day))
    ELSE Raise("ValueError", MsgDayOutOfRange)

\* the directives %d, %m and %Y of strptime: 1-2 digits in 1..31, 1-2 digits
\* in 1..12, exactly 4 digits
MatchesDay(s) ==
    isdigit(s) /\ Len(s) \in 1..2 /\ ToInt(s) \in 1..31

MatchesMonth(s) ==
    isdigit(s) /\ Len(s) \in 1..2 /\ ToInt(s) \in 1..12

MatchesYear(s) ==
    isdigit(s) /\ Len(s) = 4

\* datetime.strptime(value, "%d.%m.%Y").date()
strptime_dmy(value) ==
    LET parts == SplitOn(value, ".", <<>>, <<>>) IN
    IF /\ Len(parts) = 3
       /\ MatchesDay(parts[1])
       /\ MatchesMonth(parts[2])
       /\ MatchesYear(parts[3])
       /\ ValidDate(ToInt(parts[3]), ToInt(parts[2]), ToInt(parts[1]))
    THEN Return(Date(ToInt(parts[3]), ToInt(parts[2]), ToInt(parts[1])))
    ELSE Raise("ValueError", MsgDateFormat)

\* %Y of strftime: the C library decides whether a year below 1000 is padded
FormatYear(year) ==
    IF padYear THEN ZeroPad(Decimal(year), 4) ELSE Decimal(year)

\* d.strftime("%d.%m.%Y")
strftime_dmy(d) ==
    ZeroPad(Decimal(d.day), 2) \o <<".">> \o ZeroPad(Decimal(d.month), 2)
        \o <<".">> \o FormatYear(d.year)

\* d.strftime("%Y.%m.%d")
strftime_ymd(d) ==
    FormatYear(d.year) \o <<".">> \o ZeroPad(Decimal(d.month), 2)
        \o <<".">> \o ZeroPad(Decimal(d.day), 2)

-----------------------------------------------------------------------------
(* Fields: Name, Phone, Birthday                                           *)

\* Name without the call of validate_name
Name_unchecked(value) ==
    Return(value)

\* Name(value): the value, or ValidationException
Name(value) ==
    IF ~isalpha(value)
    THEN Raise("ValidationException", MsgNameLetters)
    ELSE Return(value)

\* Phone(value): the value, or ValidationException
Phone(value) ==
    IF ~isdigit(value) \/ Len(value) # 10
    THEN Raise("ValidationException", MsgPhoneDigits)
    ELSE Return(value)

\* Birthday(value): the parsed date, or ValidationException
Birthday(value) ==
    LET parsed == strptime_dmy(value) IN
    IF parsed.exc = "ValueError"
    THEN Raise("ValidationException", MsgDateFormat)
    ELSE parsed

-----------------------------------------------------------------------------
(* Record                                                                  *)

None == <<>>

Some(x) == <<x>>

\* Record(name)
Record(name) ==
    LET n == Name(name) IN
    IF n.exc # "" THEN n
    ELSE Return([name |-> n.val, phones |-> <<>>, birthday |-> None])

\* A method that mutates its record returns the record as it is afterwards
\* in rec, also when it raises.
RecReturn(v, rec) ==
    [exc |-> "", val |-> v, rec |-> rec]

RecRaise(e, rec) ==
    [exc |-> e.exc, val |-> e.val, rec |-> rec]

\* Record.add_phone
add_phone(rec, phone) ==
    LET p == Phone(phone) IN
    IF p.exc # "" THEN RecRaise(p, rec)
    ELSE RecReturn(None, [rec EXCEPT !.phones = Append(@, p.val)])

\* position of the first phone equal to value, 0 when there is none
FirstIndex(phones, value) ==
    IF \E i \in DOMAIN phones : phones[i] = value
    THEN CHOOSE i \in DOMAIN phones :
            /\ phones[i] = value
            /\ \A j \in 1..(i - 1) : phones[j] # value
    ELSE 0

\* edit_phone that adds new_phone when old_phone is not found
edit_phone_append(rec, old_phone, new_phone) ==
    LET i == FirstIndex(rec.phones, old_phone) IN
    IF i # 0
    THEN RecReturn(None, [rec EXCEPT !.phones[i] = new_phone])
    ELSE RecReturn(None, [rec EXCEPT !.phones = Append(@, new_phone)])

\* edit_phone without the return in the loop: every match is replaced
edit_phone_all(rec, old_phone, new_phone) ==
    IF FirstIndex(rec.phones, old_phone) # 0
    THEN RecReturn(None, [rec EXCEPT !.phones =
            [i \in DOMAIN rec.phones |->
                IF rec.phones[i] = old_phone THEN new_phone ELSE rec.phones[i]]])
    ELSE RecRaise(Raise("ValidationException", MsgPhoneNotFound), rec)

\* Record.edit_phone
edit_phone(rec, old_phone, new_phone) ==
    LET i == FirstIndex(rec.phones, old_phone) IN
    IF i # 0
    THEN RecReturn(None, [rec EXCEPT !.phones[i] = new_phone])
    ELSE RecRaise(Raise("ValidationException", MsgPhoneNotFound), rec)

\* Record.add_birthday
add_birthday(rec, birthday) ==
    LET b == Birthday(birthday) IN
    IF b.exc # "" THEN RecRaise(b, rec)
    ELSE RecReturn(None, [rec EXCEPT !.birthday = Some(b.val)])

\* Record.show_birthday
show_birthday(rec) ==
    IF rec.birthday # None THEN strftime_dmy(rec.birthday[1]) ELSE MsgBirthdayNotSet

\* Record.__str__
RecordStr(rec) ==
    LET birthday_str == IF rec.birthday # None
                        THEN TxtBirthday \o show_birthday(rec)
                        ELSE <<>>
    IN TxtContactName \o rec.name \o TxtPhones \o join(SepPhones, rec.phones)
           \o birthday_str

-----------------------------------------------------------------------------
(* AddressBook: book is [data, keys], the dict and its insertion order     *)

Book(d, k) ==
    [data |-> d, keys |-> k]

\* self.data[key] = record
SetItem(book, key, record) ==
    IF key \in DOMAIN book.data
    THEN Book([book.data EXCEPT ![key] = record], book.keys)
    ELSE Book([k \in DOMAIN book.data \cup {key} |->
                  IF k = key THEN record ELSE book.data[k]],
              Append(book.keys, key))

\* A method that may change the book returns the book as it is afterwards
\* in book, also when it raises.
BookReturn(v, book) ==
    [exc |-> "", val |-> v, book |-> book]

BookRaise(e, book) ==
    [exc |-> e.exc, val |-> e.val, book |-> book]

\* AddressBook.add_record
add_record(book, record) ==
    SetItem(book, record.name, record)

\* AddressBook.find
find(book, name) ==
    IF name \in DOMAIN book.data THEN Some(book.data[name]) ELSE None

\* line 111 with < 7 in place of <= 7
InWindow_open(this_year_birthday, now) ==
    /\ 0 <= DaysBetween(this_year_birthday, now)
    /\ DaysBetween(this_year_birthday, now) < 7

\* line 111: the birthday is upcoming
InWindow(this_year_birthday, now) ==
    /\ 0 <= DaysBetween(this_year_birthday, now)
    /\ DaysBetween(this_year_birthday, now) <= 7

\* lines 112-117 with one day added on a Saturday too
CongratulationDate_one(this_year_birthday) ==
    IF weekday(this_year_birthday) \in {5, 6} THEN PlusDays(this_year_birthday, 1)
    ELSE this_year_birthday

\* lines 112-117: the date to congratulate on
CongratulationDate(this_year_birthday) ==
    IF weekday(this_year_birthday) = 5 THEN PlusDays(this_year_birthday, 2)
    ELSE IF weekday(this_year_birthday) = 6 THEN PlusDays(this_year_birthday, 1)
    ELSE this_year_birthday

\* lines 119-123: the dict appended to upcoming_birthdays
UpcomingEntry(record, this_year_birthday, congratulation_date) ==
    [name |-> record.name,
     birthday |-> strftime_dmy(congratulation_date),
     congratulation_date |-> strftime_ymd(congratulation_date)]

\* lines 106-109: the birthday mapped onto this year, or onto the next one
\* when it has passed; either replace may raise ValueError
ThisYearBirthday(birthday, now) ==
    LET r == replace_year(birthday, now.year) IN
    IF r.exc # "" THEN r
    ELSE IF DateLess(r.val, now) THEN replace_year(r.val, now.year + 1)
    ELSE r

\* the for loop of get_upcoming_birthdays from the i-th value of the dict on
RECURSIVE UpcomingLoop(_, _, _, _)
UpcomingLoop(book, now, i, upcoming_birthdays) ==
    IF i > Len(book.keys) THEN Return(upcoming_birthdays)
    ELSE LET record == book.data[book.keys[i]] IN
         IF record.birthday = None
         THEN UpcomingLoop(book, now, i + 1, upcoming_birthdays)
         ELSE LET t == ThisYearBirthday(record.birthday[1], now) IN
              IF t.exc # "" THEN t
              ELSE IF InWindow(t.val, now)
                   THEN UpcomingLoop(book, now, i + 1,
                            Append(upcoming_birthdays,
                                   UpcomingEntry(record, t.val, CongratulationDate(t.val))))
                   ELSE UpcomingLoop(book, now, i + 1, upcoming_birthdays)

\* AddressBook.get_upcoming_birthdays, with today = now
get_upcoming_birthdays(book, now) ==
    UpcomingLoop(book, now, 1, <<>>)

\* add_contact without the find: a new Record replaces the one of the name
add_contact_fresh(book, name, phone) ==
    LET created == Record(name) IN
    IF created.exc # "" THEN BookRaise(created, book)
    ELSE LET book1 == add_record(book, created.val) IN
         IF phone # None /\ phone[1] # <<>>
         THEN LET a == add_phone(created.val, phone[1])
                  book2 == SetItem(book1, created.val.name, a.rec)
              IN  IF a.exc # "" THEN BookRaise(a, book2)
                  ELSE BookReturn(MsgContactAdded, book2)
         ELSE BookReturn(MsgContactAdded, book1)

\* add_contact that builds the Phone before it adds the new record
add_contact_checked(book, name, phone) ==
    LET found == find(book, name)
        created == Record(name)
        p == IF phone # None /\ phone[1] # <<>> THEN Phone(phone[1]) ELSE Return(None)
    IN  IF found = None /\ created.exc # ""
        THEN BookRaise(created, book)
        ELSE IF p.exc # "" THEN BookRaise(p, book)
        ELSE LET record == IF found = None THEN created.val ELSE found[1]
                 book1 == IF found = None THEN add_record(book, record) ELSE book
                 message == IF found = None THEN MsgContactAdded ELSE MsgContactUpdated
             IN  IF phone # None /\ phone[1] # <<>>
                 THEN BookReturn(message,
                        SetItem(book1, record.name,
                                [record EXCEPT !.phones = Append(@, p.val)]))
                 ELSE BookReturn(message, book1)

\* AddressBook.add_contact; phone is None or Some(string)
add_contact(book, name, phone) ==
    LET found == find(book, name)
        created == Record(name)
    IN  IF found = None /\ created.exc # ""
        THEN BookRaise(created, book)
        ELSE LET record == IF found = None THEN created.val ELSE found[1]
                 book1 == IF found = None THEN add_record(book, record) ELSE book
                 message == IF found = None THEN MsgContactAdded ELSE MsgContactUpdated
             IN  IF phone # None /\ phone[1] # <<>>
                 THEN LET a == add_phone(record, phone[1])
                          book2 == SetItem(book1, record.name, a.rec)
                      IN  IF a.exc # "" THEN BookRaise(a, book2)
                          ELSE BookReturn(message, book2)
                 ELSE BookReturn(message, book1)

\* AddressBook.change_contact
change_contact(book, name, old_phone, new_phone) ==
    LET found == find(book, name) IN
    IF found = None
    THEN BookRaise(Raise("KeyError", MsgContactNotFound), book)
    ELSE LET e == edit_phone(found[1], old_phone, new_phone)
             book1 == SetItem(book, name, e.rec)
         IN  IF e.exc # "" THEN BookRaise(e, book1)
             ELSE BookReturn(MsgPhoneUpdated, book1)

\* AddressBook.show_phone
show_phone(book, name) ==
    LET found == find(book, name) IN
    IF found = None
    THEN BookRaise(Raise("KeyError", MsgContactNotFound), book)
    ELSE BookReturn(join(SepPhones, found[1].phones), book)

\* AddressBook.show_all
show_all(book) ==
    IF book.keys = <<>>
    THEN BookReturn(MsgNoContacts, book)
    ELSE BookReturn(join(SepLines, [i \in DOMAIN book.keys |->
                                       RecordStr(book.data[book.keys[i]])]), book)

-----------------------------------------------------------------------------
(* Command handlers                                                        *)

\* the classes `except Exception` catches
ExceptionClasses ==
    {"ValidationException", "IndexError", "KeyError", "ValueError"}

\* str(e): KeyError shows the repr of its argument, the others the argument
ExceptionStr(class, msg) ==
    IF class = "KeyError" THEN <<"'">> \o msg \o <<"'">> ELSE msg

\* input_error with `except (ValidationException, KeyError, IndexError)`
input_error_known(r) ==
    IF r.exc = "" THEN r
    ELSE IF r.exc \in {"ValidationException", "KeyError", "IndexError"}
         THEN BookReturn(ExceptionStr(r.exc, r.val), r.book)
         ELSE r

\* input_error: inner() applied to the outcome r of func(*args)
input_error(r) ==
    IF r.exc = "" THEN r
    ELSE IF r.exc \in ExceptionClasses
         THEN BookReturn(ExceptionStr(r.exc, r.val), r.book)
         ELSE r

handle_add_birthday(arguments, book) ==
    input_error(
        IF Len(arguments) # 2
        THEN BookRaise(Raise("IndexError", MsgUsageAddBirthday), book)
        ELSE LET name == arguments[1]
                 date == arguments[2]
                 found == find(book, name)
             IN  IF found = None
                 THEN BookRaise(Raise("KeyError", MsgContactNotFound), book)
                 ELSE LET a == add_birthday(found[1], date)
                          book1 == SetItem(book, name, a.rec)
                      IN  IF a.exc # "" THEN BookRaise(a, book1)
                          ELSE BookReturn(MsgBirthdayAdded, book1))

handle_show_birthday(arguments, book) ==
    input_error(
        IF Len(arguments) # 1
        THEN BookRaise(Raise("IndexError", MsgUsageName), book)
        ELSE LET found == find(book, arguments[1]) IN
             IF found = None
             THEN BookRaise(Raise("KeyError", MsgContactNotFound), book)
             ELSE BookReturn(show_birthday(found[1]), book))

\* line 199: the line printed for one upcoming birthday
BirthdayLine(b) ==
    b.name \o TxtBirthdayOn \o b.birthday \o TxtCelebrateOn \o b.congratulation_date

handle_birthdays(arguments, book, now) ==
    input_error(
        LET u == get_upcoming_birthdays(book, now) IN
        IF u.exc # "" THEN BookRaise(u, book)
        ELSE IF u.val = <<>> THEN BookReturn(MsgNoBirthdays, book)
        ELSE BookReturn(join(SepLines, [i \in DOMAIN u.val |-> BirthdayLine(u.val[i])]),
                        book))

handle_add_contact(arguments, book) ==
    input_error(
        IF Len(arguments) # 2
        THEN BookRaise(Raise("IndexError", MsgUsageAdd), book)
        ELSE add_contact(book, arguments[1], Some(arguments[2])))

handle_change_contact(arguments, book) ==
    input_error(
        IF Len(arguments) # 3
        THEN BookRaise(Raise("IndexError", MsgUsageChange), book)
        ELSE change_contact(book, arguments[1], arguments[2], arguments[3]))

handle_show_phone(arguments, book) ==
    input_error(
        IF Len(arguments) # 1
        THEN BookRaise(Raise("IndexError", MsgUsageName), book)
        ELSE show_phone(book, arguments[1]))

handle_show_all(book) ==
    input_error(show_all(book))

\* parse_input
parse_input(user_input) ==
    IF strip(user_input) = <<>>
    THEN [cmd |-> <<>>, args |-> <<>>]
    ELSE LET tokens == split(user_input) IN
         [cmd |-> lower(strip(Head(tokens))),
          args |-> [i \in DOMAIN Tail(tokens) |-> strip(Tail(tokens)[i])]]

-----------------------------------------------------------------------------
(* Input lines                                                             *)

\* the largest number of phones the book holds in the model
MaxPhones == 2

\* the largest number of days a sampled date lies after its base date
SpanDays == 6

MsgWelcome ==
    <<"W","e","l","c","o","m","e"," ","t","o"," ","t","h","e"," ","a","s","s","i","s","t","a","n","t"," ","b","o","t","!">>
NameAnn ==
    <<"A","n","n">>
NameBob ==
    <<"B","o","b">>
NameBad ==
    <<"A","1">>
Phone1 ==
    <<"1","2","3","4","5","6","7","8","9","0">>
Phone2 ==
    <<"0","9","8","7","6","5","4","3","2","1">>
PhoneShort ==
    <<"1","2","3","4","5">>
PhoneAlpha ==
    <<"1","2","3","4","5","a","b","c","d","e">>
DateSat ==
    <<"2","7",".","0","2",".","1","9","9","0">>
DateSatShort ==
    <<"2","7",".","2",".","1","9","9","0">>
DateLeap ==
    <<"2","9",".","0","2",".","2","0","0","0">>
DateOld ==
    <<"0","1",".","0","1",".","0","9","9","9">>
DateNoDay ==
    <<"3","1",".","0","4",".","2","0","0","0">>
DateNoLeap ==
    <<"2","9",".","0","2",".","2","0","0","1">>
DateDashes ==
    <<"2","0","0","0","-","0","2","-","2","7">>
WordFoo ==
    <<"f","o","o">>
WordExitUpper ==
    <<"E","X","I","T">>
LineSpaces ==
    <<" "," "," ">>
LineSpacedAdd ==
    <<" "," ","A","D","D"," ","\t"," ","B","o","b"," "," "," ","0","9","8","7","6","5","4","3","2","1"," "," ">>

CommandWords ==
    {CmdClose, CmdExit, CmdHello, CmdAdd, CmdChange, CmdPhone, CmdAll,
     CmdAddBirthday, CmdShowBirthday, CmdBirthdays, WordFoo, WordExitUpper}

NameTokens ==
    {NameAnn, NameBob, NameBad}

\* dates of years from 1000 on: valid, valid with a one-digit month, invalid
\* days, malformed
DateTokens ==
    {DateSat, DateSatShort, DateLeap, DateNoDay, DateNoLeap, DateDashes}

\* the line a user types for a command word and its arguments
Line(tokens) ==
    join(<<" ">>, tokens)

\* the lines typed in Spec: every command with too few, the right number of
\* and too many arguments
Lines ==
    {<<>>, LineSpaces, LineSpacedAdd}
    \cup {Line(<<c>>) : c \in CommandWords}
    \cup {Line(<<c, NameAnn>>) :
            c \in {CmdAdd, CmdChange, CmdAddBirthday, CmdBirthdays, CmdAll, CmdExit}}
    \cup {Line(<<c, NameAnn, Phone1>>) : c \in {CmdChange, CmdPhone, CmdShowBirthday}}
    \cup {Line(<<c, NameAnn, Phone1, Phone2>>) : c \in {CmdAdd, CmdAddBirthday}}
    \cup {Line(<<c, NameAnn, Phone1, Phone2, Phone1>>) :
            c \in {CmdAdd, CmdChange, CmdPhone, CmdAll, CmdAddBirthday, CmdShowBirthday,
                   CmdBirthdays}}
    \cup {Line(<<CmdAdd, n, p>>) : n \in NameTokens, p \in {Phone1, PhoneShort, PhoneAlpha}}
    \cup {Line(<<CmdChange, n, o, p>>) :
            n \in NameTokens, o \in {Phone1, Phone2, PhoneShort}, p \in {Phone2, PhoneShort}}
    \cup {Line(<<c, n>>) : c \in {CmdPhone, CmdShowBirthday}, n \in NameTokens}
    \cup {Line(<<CmdAddBirthday, n, d>>) : n \in NameTokens, d \in DateTokens}

\* the lines typed in SpecBirthday: contacts are added, birthdays set and shown;
\* the dates include one of a year below 1000
BirthdayLines ==
    {Line(<<CmdAdd, n, Phone1>>) : n \in NameTokens}
    \cup {Line(<<CmdAddBirthday, n, d>>) : n \in NameTokens, d \in DateTokens \cup {DateOld}}
    \cup {Line(<<CmdShowBirthday, n>>) : n \in NameTokens}
    \cup {Line(<<CmdAll>>)}

\* the lines typed in SpecDates
DatesLines ==
    {Line(<<CmdBirthdays>>)}

\* the date datetime.now().date() takes in Spec and SpecBirthday: a Wednesday
\* of a common year
Todays ==
    {Date(2027, 2, 24)}

\* SpecDates: the days from a Friday before a new year, from a Monday before
\* the end of a common February and from a Friday before 29 February
BaseDates ==
    {Date(2026, 12, 25), Date(2027, 2, 22), Date(2028, 2, 25)}

WideTodays ==
    {PlusDays(b, i) : b \in BaseDates, i \in 0..SpanDays}

\* birthdays of the leap year 2000 on every month and day from a base date
\* to 9 days after the last sampled today
WideBirthdays ==
    {Date(2000, x.month, x.day) :
        x \in {PlusDays(b, i) : b \in BaseDates, i \in 0..(SpanDays + 9)}}

-----------------------------------------------------------------------------
(* The command loop of main()                                              *)

TotalPhones(book) ==
    LET RECURSIVE Sum(_)
        Sum(i) == IF i = 0 THEN 0
                  ELSE Sum(i - 1) + Len(book.data[book.keys[i]].phones)
    IN Sum(Len(book.keys))

\* Init: the state of main() before the first line is read.  No line of Lines
\* carries a year below 1000, so the padding of %Y does not show in Spec and
\* padYear is fixed; SpecBirthday starts with either value.
Init ==
    /\ data = <<>>
    /\ keys = <<>>
    /\ today \in Todays
    /\ padYear = FALSE
    /\ pc = "input"
    /\ running = TRUE
    /\ escaped = FALSE
    /\ command = <<>>
    /\ args = <<>>
    /\ out = MsgWelcome
    /\ upcoming = None

\* one pass of the loop body that prints text and changes nothing
Printed(p, text) ==
    /\ pc' = "printed"
    /\ command' = p.cmd
    /\ args' = p.args
    /\ out' = text
    /\ upcoming' = None
    /\ UNCHANGED <<data, keys, today, padYear, running, escaped>>

\* one pass of the loop body that calls a handler with outcome r: the
\* returned string is printed, an exception that left the handler unwinds main()
Handled(p, r) ==
    /\ pc' = "printed"
    /\ command' = p.cmd
    /\ args' = p.args
    /\ data' = r.book.data
    /\ keys' = r.book.keys
    /\ out' = r.val
    /\ running' = (r.exc = "")
    /\ escaped' = (r.exc # "")
    /\ UNCHANGED <<today, padYear>>

EmptyLinePass(p) ==
    /\ p.cmd = <<>>
    /\ Printed(p, MsgEnterCommand)

QuitPass(p) ==
    /\ p.cmd \in {CmdClose, CmdExit}
    /\ pc' = "printed"
    /\ command' = p.cmd
    /\ args' = p.args
    /\ out' = MsgGoodBye
    /\ running' = FALSE
    /\ upcoming' = None
    /\ UNCHANGED <<data, keys, today, padYear, escaped>>

HelloPass(p) ==
    /\ p.cmd = CmdHello
    /\ Printed(p, MsgHello)

AddContactPass(p) ==
    /\ p.cmd = CmdAdd
    /\ LET r == handle_add_contact(p.args, Book(data, keys)) IN
        /\ TotalPhones(r.book) <= MaxPhones
        /\ Handled(p, r)
    /\ upcoming' = None

ChangeContactPass(p) ==
    /\ p.cmd = CmdChange
    /\ Handled(p, handle_change_contact(p.args, Book(data, keys)))
    /\ upcoming' = None

ShowPhonePass(p) ==
    /\ p.cmd = CmdPhone
    /\ Handled(p, handle_show_phone(p.args, Book(data, keys)))
    /\ upcoming' = None

ShowAllPass(p) ==
    /\ p.cmd = CmdAll
    /\ Handled(p, handle_show_all(Book(data, keys)))
    /\ upcoming' = None

AddBirthdayPass(p) ==
    /\ p.cmd = CmdAddBirthday
    /\ Handled(p, handle_add_birthday(p.args, Book(data, keys)))
    /\ upcoming' = None

ShowBirthdayPass(p) ==
    /\ p.cmd = CmdShowBirthday
    /\ Handled(p, handle_show_birthday(p.args, Book(data, keys)))
    /\ upcoming' = None

\* upcoming keeps the outcome of book.get_upcoming_birthdays() (line 194)
BirthdaysPass(p) ==
    /\ p.cmd = CmdBirthdays
    /\ Handled(p, handle_birthdays(p.args, Book(data, keys), today))
    /\ upcoming' = Some(get_upcoming_birthdays(Book(data, keys), today))

InvalidCommandPass(p) ==
    /\ p.cmd # <<>>
    /\ p.cmd \notin {CmdClose, CmdExit, CmdHello, CmdAdd, CmdChange, CmdPhone,
                     CmdAll, CmdAddBirthday, CmdShowBirthday, CmdBirthdays}
    /\ Printed(p, MsgInvalidCommand)

\* lines 252-279: read one of the lines, parse it, and run the branch of the
\* command
EmptyLine ==
    /\ pc = "input"
    /\ running
    /\ \E line \in Lines : EmptyLinePass(parse_input(line))

Quit ==
    /\ pc = "input"
    /\ running
    /\ \E line \in Lines : QuitPass(parse_input(line))

Hello ==
    /\ pc = "input"
    /\ running
    /\ \E line \in Lines : HelloPass(parse_input(line))

AddContact ==
    /\ pc = "input"
    /\ running
    /\ \E line \in Lines : AddContactPass(parse_input(line))

ChangeContact ==
    /\ pc = "input"
    /\ running
    /\ \E line \in Lines : ChangeContactPass(parse_input(line))

ShowPhone ==
    /\ pc = "input"
    /\ running
    /\ \E line \in Lines : ShowPhonePass(parse_input(line))

ShowAll ==
    /\ pc = "input"
    /\ running
    /\ \E line \in Lines : ShowAllPass(parse_input(line))

AddBirthday ==
    /\ pc = "input"
    /\ running
    /\ \E line \in Lines : AddBirthdayPass(parse_input(line))

ShowBirthday ==
    /\ pc = "input"
    /\ running
    /\ \E line \in Lines : ShowBirthdayPass(parse_input(line))

Birthdays ==
    /\ pc = "input"
    /\ running
    /\ \E line \in Lines : BirthdaysPass(parse_input(line))

InvalidCommand ==
    /\ pc = "input"
    /\ running
    /\ \E line \in Lines : InvalidCommandPass(parse_input(line))

\* line 251: the loop goes round; the locals of the last pass are dead
NextLine ==
    /\ pc = "printed"
    /\ running
    /\ pc' = "input"
    /\ command' = <<>>
    /\ args' = <<>>
    /\ out' = <<>>
    /\ upcoming' = None
    /\ UNCHANGED <<data, keys, today, padYear, running, escaped>>

Next ==
    \/ EmptyLine
    \/ Quit
    \/ Hello
    \/ AddContact
    \/ ChangeContact
    \/ ShowPhone
    \/ ShowAll
    \/ AddBirthday
    \/ ShowBirthday
    \/ Birthdays
    \/ InvalidCommand
    \/ NextLine

Spec ==
    Init /\ [][Next]_vars

\* SpecBirthday: the same loop on the lines that set and show birthdays, under
\* both behaviours of the C library for years below 1000
InitBirthday ==
    /\ data = <<>>
    /\ keys = <<>>
    /\ today \in Todays
    /\ padYear \in BOOLEAN
    /\ pc = "input"
    /\ running = TRUE
    /\ escaped = FALSE
    /\ command = <<>>
    /\ args = <<>>
    /\ out = MsgWelcome
    /\ upcoming = None

AddContactB ==
    /\ pc = "input"
    /\ running
    /\ \E line \in BirthdayLines : AddContactPass(parse_input(line))

AddBirthdayB ==
    /\ pc = "input"
    /\ running
    /\ \E line \in BirthdayLines : AddBirthdayPass(parse_input(line))

ShowBirthdayB ==
    /\ pc = "input"
    /\ running
    /\ \E line \in BirthdayLines : ShowBirthdayPass(parse_input(line))

ShowAllB ==
    /\ pc = "input"
    /\ running
    /\ \E line \in BirthdayLines : ShowAllPass(parse_input(line))

NextBirthday ==
    \/ AddContactB
    \/ AddBirthdayB
    \/ ShowBirthdayB
    \/ ShowAllB
    \/ NextLine

SpecBirthday ==
    InitBirthday /\ [][NextBirthday]_vars

\* SpecDates: get_upcoming_birthdays on books of one or two contacts, on every
\* sampled today and birthday.  The books are the ones "add Ann 1234567890",
\* "add-birthday Ann <date>", "add Bob 1234567890" and "add-birthday Bob <date>"
\* leave.
DatesRecord(name, birthday) ==
    [name |-> name, phones |-> <<Phone1>>, birthday |-> birthday]

DatesBooks ==
    {Book([k \in {NameAnn} |-> DatesRecord(NameAnn, b)], <<NameAnn>>) :
        b \in {None} \cup {Some(d) : d \in WideBirthdays}}
    \cup {Book([k \in {NameAnn, NameBob} |->
                  IF k = NameAnn THEN DatesRecord(NameAnn, Some(b))
                  ELSE DatesRecord(NameBob, c)],
               <<NameAnn, NameBob>>) :
            b \in WideBirthdays,
            c \in {None, Some(Date(1990, 12, 31)), Some(Date(1996, 2, 29)),
                   Some(Date(1990, 2, 27))}}

InitDates ==
    /\ \E book \in DatesBooks : data = book.data /\ keys = book.keys
    /\ today \in WideTodays
    /\ padYear \in BOOLEAN
    /\ pc = "input"
    /\ running = TRUE
    /\ escaped = FALSE
    /\ command = <<>>
    /\ args = <<>>
    /\ out = <<>>
    /\ upcoming = None

BirthdaysD ==
    /\ pc = "input"
    /\ running
    /\ \E line \in DatesLines : BirthdaysPass(parse_input(line))

NextDates ==
    \/ BirthdaysD
    \/ NextLine

SpecDates ==
    InitDates /\ [][NextDates]_vars

-----------------------------------------------------------------------------
(* Properties of the command loop, checked under Spec                      *)

\* the Phone rule as the specification words it: exactly 10 decimal digits
TenDigits(s) ==
    /\ Len(s) = 10
    /\ \A i \in 1..10 : s[i] \in {"0","1","2","3","4","5","6","7","8","9"}

\* the Name rule as the specification words it: non-empty, letters only
LettersOnly(s) ==
    /\ s # <<>>
    /\ \A i \in DOMAIN s : s[i] \in Letters

\* s ends with t
EndsWith(s, t) ==
    /\ Len(t) <= Len(s)
    /\ SubSeq(s, Len(s) - Len(t) + 1, Len(s)) = t

\* the step is one pass of the loop for command word c with n arguments
Pass(c, n) ==
    /\ pc = "input"
    /\ pc' = "printed"
    /\ command' = c
    /\ Len(args') = n

\* every record but the one of name is in the book after the step as before
OthersUnchanged(name) ==
    \A k \in DOMAIN data \ {name} : k \in DOMAIN data' /\ data'[k] = data[k]

\* the book is after the step exactly as before
BookUnchanged ==
    data' = data /\ keys' = keys

\* C1: add_contact with a valid name and a valid phone answers "Contact
\* added." exactly when the name had no record and "Contact updated." exactly
\* when it had one; the phone becomes the last phone of the record, the
\* earlier phones and the birthday are kept, every other record is unchanged,
\* and show_phone(name) afterwards ends with the phone.
C1_AddStep ==
    (Pass(CmdAdd, 2) /\ LettersOnly(args'[1]) /\ TenDigits(args'[2])) =>
        LET name == args'[1]
            phone == args'[2]
            before == IF name \in DOMAIN data
                      THEN data[name]
                      ELSE [name |-> name, phones |-> <<>>, birthday |-> None]
        IN  /\ (out' = MsgContactAdded) <=> (name \notin DOMAIN data)
            /\ (out' = MsgContactUpdated) <=> (name \in DOMAIN data)
            /\ DOMAIN data' = DOMAIN data \cup {name}
            /\ data'[name].phones = Append(before.phones, phone)
            /\ data'[name].birthday = before.birthday
            /\ data'[name].name = name
            /\ OthersUnchanged(name)
            /\ EndsWith(show_phone(Book(data', keys'), name).val, phone)
            /\ running'

C1_AddContactIsUpsert ==
    [][C1_AddStep]_vars

\* C1 witness: an add answered "Contact updated." on a record that already
\* had a phone and a birthday, with a second record in the book
C1_Witness ==
    /\ pc = "printed"
    /\ command = CmdAdd
    /\ out = MsgContactUpdated
    /\ Len(args) = 2
    /\ Len(keys) = 2
    /\ Len(data[args[1]].phones) = 2
    /\ data[args[1]].phones[2] = args[2]
    /\ data[args[1]].birthday # None

\* C10: an add with a phone that breaks the Phone rule fails; for a valid
\* name without a record it leaves a record with no phone and no birthday, so
\* the next add of that name answers "Contact updated."; when the name is
\* invalid or has a record already, a failed add leaves the book unchanged.
C10_FailedAddStep ==
    /\ (Pass(CmdAdd, 2) /\ ~TenDigits(args'[2]) /\ LettersOnly(args'[1])
            /\ args'[1] \notin DOMAIN data) =>
        LET name == args'[1] IN
            /\ out' = MsgPhoneDigits
            /\ DOMAIN data' = DOMAIN data \cup {name}
            /\ data'[name] = [name |-> name, phones |-> <<>>, birthday |-> None]
            /\ OthersUnchanged(name)
            /\ handle_add_contact(<<name, Phone1>>, Book(data', keys')).val
                   = MsgContactUpdated
    /\ (Pass(CmdAdd, 2) /\ ~TenDigits(args'[2]) /\ args'[1] \in DOMAIN data) =>
            /\ out' = MsgPhoneDigits
            /\ BookUnchanged
    /\ (Pass(CmdAdd, 2) /\ ~LettersOnly(args'[1])) =>
            /\ out' = MsgNameLetters
            /\ BookUnchanged

C10_FailedAddLeavesRecord ==
    [][C10_FailedAddStep]_vars

\* C10 witness: the add of a new valid name with a bad phone has failed and
\* the record is in the book without a phone
C10_Witness ==
    /\ pc = "printed"
    /\ command = CmdAdd
    /\ Len(args) = 2
    /\ out = MsgPhoneDigits
    /\ args[1] \in DOMAIN data
    /\ data[args[1]].phones = <<>>
    /\ Len(keys) = 2

\* C6: change_contact on a name without a record raises KeyError, edit_phone
\* with an old value the record does not hold raises "Phone number not
\* found"; in both cases the whole book is as before.
C6_FailedChangeStep ==
    Pass(CmdChange, 3) =>
        LET name == args'[1]
            old == args'[2]
            new == args'[3]
            book == Book(data, keys)
        IN  /\ name \notin DOMAIN data =>
                /\ change_contact(book, name, old, new).exc = "KeyError"
                /\ change_contact(book, name, old, new).book = book
                /\ out' = <<"'">> \o MsgContactNotFound \o <<"'">>
                /\ BookUnchanged
            /\ (name \in DOMAIN data /\ \A i \in DOMAIN data[name].phones :
                                            data[name].phones[i] # old) =>
                /\ edit_phone(data[name], old, new).exc = "ValidationException"
                /\ edit_phone(data[name], old, new).val = MsgPhoneNotFound
                /\ edit_phone(data[name], old, new).rec = data[name]
                /\ out' = MsgPhoneNotFound
                /\ BookUnchanged

C6_FailedChangeKeepsBook ==
    [][C6_FailedChangeStep]_vars

\* C6 witness: a change has failed on a record that holds phones, none of
\* them the old value
C6_Witness ==
    /\ pc = "printed"
    /\ command = CmdChange
    /\ Len(args) = 3
    /\ out = MsgPhoneNotFound
    /\ Len(keys) = 2
    /\ Len(data[args[1]].phones) = 2

\* C7: edit_phone on a record holding old replaces the first phone equal to
\* old by new, whatever string new is, and changes nothing else: length and
\* order of the phones, later duplicates of old, name and birthday stay; a
\* new value that is not 10 digits is stored as it is.
C7_EditStep ==
    (Pass(CmdChange, 3) /\ args'[1] \in DOMAIN data
        /\ \E i \in DOMAIN data[args'[1]].phones : data[args'[1]].phones[i] = args'[2]) =>
        LET name == args'[1]
            old == args'[2]
            new == args'[3]
            phones == data[name].phones
            first == CHOOSE i \in DOMAIN phones :
                        phones[i] = old /\ \A j \in DOMAIN phones : phones[j] = old => i <= j
        IN  /\ out' = MsgPhoneUpdated
            /\ DOMAIN data' = DOMAIN data
            /\ keys' = keys
            /\ Len(data'[name].phones) = Len(phones)
            /\ \A i \in DOMAIN phones :
                    data'[name].phones[i] = IF i = first THEN new ELSE phones[i]
            /\ data'[name].name = data[name].name
            /\ data'[name].birthday = data[name].birthday
            /\ OthersUnchanged(name)
            /\ ~TenDigits(new) =>
                    \E i \in DOMAIN data'[name].phones : ~TenDigits(data'[name].phones[i])

C7_EditReplacesFirstUnvalidated ==
    [][C7_EditStep]_vars

\* C7 witness: a change has put a value that is not 10 digits in the place of
\* the first of two equal phones; the second is still there
C7_Witness ==
    /\ pc = "printed"
    /\ command = CmdChange
    /\ Len(args) = 3
    /\ out = MsgPhoneUpdated
    /\ ~TenDigits(args[3])
    /\ data[args[1]].phones = <<args[3], args[2]>>
    /\ data[args[1]].birthday # None

\* C8: every key of the book maps to one record, whose name is the key, a
\* non-empty string of letters; no command changes the name of a record and
\* no command removes a record.
C8_KeysState ==
    /\ \A k \in DOMAIN data : data[k].name = k /\ LettersOnly(k)
    /\ DOMAIN data = {keys[i] : i \in DOMAIN keys}
    /\ \A i, j \in DOMAIN keys : keys[i] = keys[j] => i = j

C8_KeysStep ==
    \A k \in DOMAIN data : k \in DOMAIN data' /\ data'[k].name = data[k].name

C8_NamesAreKeysAndStay ==
    [](C8_KeysState) /\ [][C8_KeysStep]_vars

\* C8 witness: two records are in the book and commands with an invalid
\* name, a failing change and a birthday have run on it
C8_Witness ==
    /\ pc = "printed"
    /\ Len(keys) = 2
    /\ command = CmdAdd
    /\ Len(args) = 2
    /\ ~LettersOnly(args[1])
    /\ out = MsgNameLetters
    /\ \A k \in DOMAIN data : data[k].birthday # None /\ data[k].phones # <<>>

\* C5: no exception leaves a handler: after every line the loop is still
\* running unless the command was close or exit, also when
\* get_upcoming_birthdays raised ValueError on a 29 February birthday, which
\* the birthdays handler turns into the printed message.
C5_NoExceptionEscapes ==
    /\ escaped = FALSE
    /\ (~running) => (pc = "printed" /\ command \in {CmdClose, CmdExit})
    /\ (pc = "printed" /\ command = CmdBirthdays /\ upcoming[1].exc # "") =>
            (running /\ out = upcoming[1].val)

\* C5 witness: the birthdays command has run on a book with a 29 February
\* birthday in a common year; the message of the ValueError was printed
C5_Witness ==
    /\ pc = "printed"
    /\ command = CmdBirthdays
    /\ upcoming[1].exc = "ValueError"
    /\ out = MsgDayOutOfRange
    /\ running
    /\ ~IsLeap(today.year)
    /\ \E k \in DOMAIN data :
            data[k].birthday # None /\ data[k].birthday[1].month = 2
                /\ data[k].birthday[1].day = 29

-----------------------------------------------------------------------------
(* Properties of get_upcoming_birthdays, checked under SpecDates and Spec  *)

\* the date a text of the form day.month.year denotes
ReadDMY(s) ==
    LET p == SplitOn(s, ".", <<>>, <<>>) IN Date(ToInt(p[3]), ToInt(p[2]), ToInt(p[1]))

\* the date a text of the form year.month.day denotes
ReadYMD(s) ==
    LET p == SplitOn(s, ".", <<>>, <<>>) IN Date(ToInt(p[1]), ToInt(p[2]), ToInt(p[3]))

\* the birthdays command has just run and get_upcoming_birthdays returned
BirthdaysReturned ==
    /\ pc = "printed"
    /\ command = CmdBirthdays
    /\ upcoming # None
    /\ upcoming[1].exc = ""

\* the day j days from now has the month and day of the birthday
FallsIn(birthday, now, j) ==
    PlusDays(now, j).month = birthday.month /\ PlusDays(now, j).day = birthday.day

\* the next occurrence of a birthday that falls within 7 days from now
Occurrence(birthday, now) ==
    PlusDays(now, CHOOSE j \in 0..7 : FallsIn(birthday, now, j))

\* the record of key k is in the result
Listed(k) ==
    \E i \in DOMAIN upcoming[1].val : upcoming[1].val[i].name = k

C3_CelebrationShiftsOffWeekend ==
    BirthdaysReturned =>
        \A i \in DOMAIN upcoming[1].val :
            LET e == upcoming[1].val[i]
                occurrence == Occurrence(data[e.name].birthday[1], today)
                celebration == ReadYMD(e.congratulation_date)
            IN  /\ weekday(occurrence) = 5 => celebration = PlusDays(occurrence, 2)
                /\ weekday(occurrence) = 6 => celebration = PlusDays(occurrence, 1)
                /\ weekday(occurrence) \in 0..4 => celebration = occurrence
                /\ weekday(celebration) \in 0..4
                /\ DaysBetween(celebration, today) \in 0..9

\* C3 witness: on Saturday 26 December 2026 a birthday of 2 January, the
\* Saturday 7 days out, is celebrated on Monday 4 January 2027, 9 days out
C3_Witness ==
    /\ BirthdaysReturned
    /\ today = Date(2026, 12, 26)
    /\ Len(upcoming[1].val) = 1
    /\ data[upcoming[1].val[1].name].birthday = Some(Date(2000, 1, 2))
    /\ upcoming[1].val[1].congratulation_date
           = <<"2","0","2","7",".","0","1",".","0","4">>

\* C4: every listed entry carries the contact's name, the unshifted next
\* occurrence of the birthday as "birthday" and the celebration date as
\* "congratulation_date": on a Saturday or Sunday "birthday" is the earlier
\* of the two dates, on other days they are the same date.
C4_BirthdayFieldIsOccurrence ==
    BirthdaysReturned =>
        \A i \in DOMAIN upcoming[1].val :
            LET e == upcoming[1].val[i]
                occurrence == Occurrence(data[e.name].birthday[1], today)
            IN  /\ e.name \in DOMAIN data
                /\ ReadDMY(e.birthday) = occurrence
                /\ weekday(occurrence) \in {5, 6} =>
                        DateLess(ReadDMY(e.birthday), ReadYMD(e.congratulation_date))
                /\ weekday(occurrence) \in 0..4 =>
                        ReadDMY(e.birthday) = ReadYMD(e.congratulation_date)

-----------------------------------------------------------------------------
(* Properties of add_birthday and show_birthday, checked under SpecBirthday *)

\* a calendar date written DD.MM.YYYY: two digits, two digits, four digits
IsCalendarDate(s) ==
    /\ Len(s) = 10
    /\ s[3] = "." /\ s[6] = "."
    /\ \A i \in {1, 2, 4, 5, 7, 8, 9, 10} : s[i] \in Digits
    /\ ValidDate(ToInt(SubSeq(s, 7, 10)), ToInt(SubSeq(s, 4, 5)), ToInt(SubSeq(s, 1, 2)))

\* a pass of add-birthday on a record: a calendar date is set and shown back
\* as the same date, any other text fails and leaves the birthday as it was
C9_SetStep ==
    (Pass(CmdAddBirthday, 2) /\ args'[1] \in DOMAIN data) =>
        LET name == args'[1]
            text == args'[2]
        IN  /\ DOMAIN data' = DOMAIN data
            /\ OthersUnchanged(name)
            /\ data'[name].name = data[name].name
            /\ data'[name].phones = data[name].phones
            /\ IF IsCalendarDate(text)
               THEN /\ out' = MsgBirthdayAdded
                    /\ data'[name].birthday = Some(ReadDMY(text))
                    /\ strptime_dmy(show_birthday(data'[name])).exc = ""
                    /\ strptime_dmy(show_birthday(data'[name])).val = ReadDMY(text)
               ELSE /\ out' = MsgDateFormat
                    /\ data'[name].birthday = data[name].birthday

\* a pass of add-birthday on a name without a record fails and adds none
C9_NoRecordStep ==
    (Pass(CmdAddBirthday, 2) /\ args'[1] \notin DOMAIN data) =>
        /\ out' = <<"'">> \o MsgContactNotFound \o <<"'">>
        /\ BookUnchanged

\* a birthday changes only in a successful add-birthday and is never unset;
\* show-birthday answers "Birthday not set" exactly for a record without one
C9_SentinelStep ==
    /\ \A k \in DOMAIN data :
            (k \in DOMAIN data' /\ data'[k].birthday # data[k].birthday) =>
                /\ Pass(CmdAddBirthday, 2) /\ args'[1] = k /\ out' = MsgBirthdayAdded
                /\ data'[k].birthday # None
    /\ (Pass(CmdShowBirthday, 1) /\ args'[1] \in DOMAIN data) =>
            ((out' = MsgBirthdayNotSet) <=> (data[args'[1]].birthday = None))

\* C9: add_birthday with a valid DD.MM.YYYY date sets the birthday, over any
\* earlier one, and show_birthday returns that date; with any other text it
\* fails and the birthday stays; show_birthday answers "Birthday not set"
\* exactly when no birthday was ever set; add-birthday on a missing name
\* fails and creates no record.
C9_AddBirthdaySetsOrKeeps ==
    [][C9_SetStep /\ C9_NoRecordStep /\ C9_SentinelStep]_vars

\* the years of C9_SetStep from 1000 on and the texts the code rejects: what
\* is left of C9 when the year needs no padding and the text is either a
\* DD.MM.YYYY date or no date for strptime
C9_SetStepFromYear1000 ==
    (Pass(CmdAddBirthday, 2) /\ args'[1] \in DOMAIN data
        /\ (IsCalendarDate(args'[2]) => ToInt(SubSeq(args'[2], 7, 10)) >= 1000)
        /\ (~IsCalendarDate(args'[2]) => strptime_dmy(args'[2]).exc # "")) =>
            C9_SetStep

C9_HoldsFromYear1000 ==
    [][C9_SetStepFromYear1000 /\ C9_NoRecordStep /\ C9_SentinelStep]_vars

=============================================================================
